---- MODULE Spec2Model ----
(***************************************************************************)
(* Baudot-Murray (ITA2) codec of ita2.py and the leftpad helper of         *)
(* leftpad.py.                                                             *)
(*                                                                         *)
(* A Python string is a sequence of one-character strings.  A code (a key  *)
(* of a codepage table such as "000x01") is therefore a sequence of six    *)
(* characters, and kfind's not-found result "" is the empty sequence.      *)
(* A dict is the sequence of its <<key, value>> items in declaration       *)
(* order, which is the order Python iterates it in.  The control           *)
(* characters \0 \n \r \a are written "NUL" "LF" "CR" "BEL", the pound     *)
(* sign "GBP" and the sharp s "ss".                                        *)
(***************************************************************************)
EXTENDS Integers, Sequences, FiniteSets, TLC

VARIABLES
  op,        \* which call sequence this run makes: "codec", "rawdecode", "leftpad"
  pc,        \* position in that call sequence
  args,      \* the caller's arguments
  enc,       \* locals of ita2_encode: message, i, letters_mode, result
  dec,       \* locals of ita2_decode: message, codepage, i, letters_mode, result, arg_mode
  tape,      \* what ita2_draw printed: code, lines, error
  pad        \* what leftpad returned: value, error

vars == <<op, pc, args, enc, dec, tape, pad>>

----------------------------------------------------------------------------
(* Bounds of the checked instance *)

\* longest input text over CoreAlphabet
MaxLen == 3
\* longest untrusted code sequence handed to ita2_decode
MaxCodes == 3
\* longest string handed to leftpad
MaxPadStr == 3
\* largest length handed to leftpad
MaxPadLen == 4

----------------------------------------------------------------------------
(* CODEPAGES, ita2.py lines 10-55 *)

ita2std_letters ==
  <<
    <<<<"0","0","0","x","0","0">>, "NUL">>, <<<<"0","0","0","x","0","1">>, "E">>,
    <<<<"0","0","0","x","1","0">>, "LF">>, <<<<"0","0","0","x","1","1">>, "A">>,
    <<<<"0","0","1","x","0","0">>, " ">>, <<<<"0","0","1","x","0","1">>, "S">>,
    <<<<"0","0","1","x","1","0">>, "I">>, <<<<"0","0","1","x","1","1">>, "U">>,
    <<<<"0","1","0","x","0","0">>, "CR">>, <<<<"0","1","0","x","0","1">>, "D">>,
    <<<<"0","1","0","x","1","0">>, "R">>, <<<<"0","1","0","x","1","1">>, "J">>,
    <<<<"0","1","1","x","0","0">>, "N">>, <<<<"0","1","1","x","0","1">>, "F">>,
    <<<<"0","1","1","x","1","0">>, "C">>, <<<<"0","1","1","x","1","1">>, "K">>,
    <<<<"1","0","0","x","0","0">>, "T">>, <<<<"1","0","0","x","0","1">>, "Z">>,
    <<<<"1","0","0","x","1","0">>, "L">>, <<<<"1","0","0","x","1","1">>, "W">>,
    <<<<"1","0","1","x","0","0">>, "H">>, <<<<"1","0","1","x","0","1">>, "Y">>,
    <<<<"1","0","1","x","1","0">>, "P">>, <<<<"1","0","1","x","1","1">>, "Q">>,
    <<<<"1","1","0","x","0","0">>, "O">>, <<<<"1","1","0","x","0","1">>, "B">>,
    <<<<"1","1","0","x","1","0">>, "G">>, <<<<"1","1","0","x","1","1">>, "f">>,
    <<<<"1","1","1","x","0","0">>, "M">>, <<<<"1","1","1","x","0","1">>, "X">>,
    <<<<"1","1","1","x","1","0">>, "V">>, <<<<"1","1","1","x","1","1">>, "l">>
  >>

ita2std_figures ==
  <<
    <<<<"0","0","0","x","0","0">>, "NUL">>, <<<<"0","0","0","x","0","1">>, "3">>,
    <<<<"0","0","0","x","1","0">>, "LF">>, <<<<"0","0","0","x","1","1">>, "-">>,
    <<<<"0","0","1","x","0","0">>, " ">>, <<<<"0","0","1","x","0","1">>, "'">>,
    <<<<"0","0","1","x","1","0">>, "8">>, <<<<"0","0","1","x","1","1">>, "7">>,
    <<<<"0","1","0","x","0","0">>, "CR">>, <<<<"0","1","0","x","0","1">>, "e">>,
    <<<<"0","1","0","x","1","0">>, "4">>, <<<<"0","1","0","x","1","1">>, "BEL">>,
    <<<<"0","1","1","x","0","0">>, ",">>, <<<<"0","1","1","x","0","1">>, "!">>,
    <<<<"0","1","1","x","1","0">>, ":">>, <<<<"0","1","1","x","1","1">>, "(">>,
    <<<<"1","0","0","x","0","0">>, "5">>, <<<<"1","0","0","x","0","1">>, "+">>,
    <<<<"1","0","0","x","1","0">>, ")">>, <<<<"1","0","0","x","1","1">>, "2">>,
    <<<<"1","0","1","x","0","0">>, "GBP">>, <<<<"1","0","1","x","0","1">>, "6">>,
    <<<<"1","0","1","x","1","0">>, "0">>, <<<<"1","0","1","x","1","1">>, "1">>,
    <<<<"1","1","0","x","0","0">>, "9">>, <<<<"1","1","0","x","0","1">>, "?">>,
    <<<<"1","1","0","x","1","0">>, "&">>, <<<<"1","1","0","x","1","1">>, "f">>,
    <<<<"1","1","1","x","0","0">>, ".">>, <<<<"1","1","1","x","0","1">>, "/">>,
    <<<<"1","1","1","x","1","0">>, "=">>, <<<<"1","1","1","x","1","1">>, "l">>
  >>

ita2us_letters ==
  <<
    <<<<"0","0","0","x","0","0">>, "NUL">>, <<<<"0","0","0","x","0","1">>, "E">>,
    <<<<"0","0","0","x","1","0">>, "LF">>, <<<<"0","0","0","x","1","1">>, "A">>,
    <<<<"0","0","1","x","0","0">>, " ">>, <<<<"0","0","1","x","0","1">>, "S">>,
    <<<<"0","0","1","x","1","0">>, "I">>, <<<<"0","0","1","x","1","1">>, "U">>,
    <<<<"0","1","0","x","0","0">>, "CR">>, <<<<"0","1","0","x","0","1">>, "D">>,
    <<<<"0","1","0","x","1","0">>, "R">>, <<<<"0","1","0","x","1","1">>, "J">>,
    <<<<"0","1","1","x","0","0">>, "N">>, <<<<"0","1","1","x","0","1">>, "F">>,
    <<<<"0","1","1","x","1","0">>, "C">>, <<<<"0","1","1","x","1","1">>, "K">>,
    <<<<"1","0","0","x","0","0">>, "T">>, <<<<"1","0","0","x","0","1">>, "Z">>,
    <<<<"1","0","0","x","1","0">>, "L">>, <<<<"1","0","0","x","1","1">>, "W">>,
    <<<<"1","0","1","x","0","0">>, "H">>, <<<<"1","0","1","x","0","1">>, "Y">>,
    <<<<"1","0","1","x","1","0">>, "P">>, <<<<"1","0","1","x","1","1">>, "Q">>,
    <<<<"1","1","0","x","0","0">>, "O">>, <<<<"1","1","0","x","0","1">>, "B">>,
    <<<<"1","1","0","x","1","0">>, "G">>, <<<<"1","1","0","x","1","1">>, "f">>,
    <<<<"1","1","1","x","0","0">>, "M">>, <<<<"1","1","1","x","0","1">>, "X">>,
    <<<<"1","1","1","x","1","0">>, "V">>, <<<<"1","1","1","x","1","1">>, "l">>
  >>

ita2us_figures ==
  <<
    <<<<"0","0","0","x","0","0">>, "NUL">>, <<<<"0","0","0","x","0","1">>, "3">>,
    <<<<"0","0","0","x","1","0">>, "LF">>, <<<<"0","0","0","x","1","1">>, "-">>,
    <<<<"0","0","1","x","0","0">>, " ">>, <<<<"0","0","1","x","0","1">>, "BEL">>,
    <<<<"0","0","1","x","1","0">>, "8">>, <<<<"0","0","1","x","1","1">>, "7">>,
    <<<<"0","1","0","x","0","0">>, "CR">>, <<<<"0","1","0","x","0","1">>, "$">>,
    <<<<"0","1","0","x","1","0">>, "4">>, <<<<"0","1","0","x","1","1">>, "'">>,
    <<<<"0","1","1","x","0","0">>, ",">>, <<<<"0","1","1","x","0","1">>, "!">>,
    <<<<"0","1","1","x","1","0">>, ":">>, <<<<"0","1","1","x","1","1">>, "(">>,
    <<<<"1","0","0","x","0","0">>, "5">>, <<<<"1","0","0","x","0","1">>, "\"">>,
    <<<<"1","0","0","x","1","0">>, ")">>, <<<<"1","0","0","x","1","1">>, "2">>,
    <<<<"1","0","1","x","0","0">>, "#">>, <<<<"1","0","1","x","0","1">>, "6">>,
    <<<<"1","0","1","x","1","0">>, "0">>, <<<<"1","0","1","x","1","1">>, "1">>,
    <<<<"1","1","0","x","0","0">>, "9">>, <<<<"1","1","0","x","0","1">>, "?">>,
    <<<<"1","1","0","x","1","0">>, "&">>, <<<<"1","1","0","x","1","1">>, "f">>,
    <<<<"1","1","1","x","0","0">>, ".">>, <<<<"1","1","1","x","0","1">>, "/">>,
    <<<<"1","1","1","x","1","0">>, ";">>, <<<<"1","1","1","x","1","1">>, "l">>
  >>

CODEPAGES ==
  [ita2std |-> [letters |-> ita2std_letters, figures |-> ita2std_figures],
   ita2us  |-> [letters |-> ita2us_letters,  figures |-> ita2us_figures]]

CodepageNames == {"ita2std", "ita2us"}

----------------------------------------------------------------------------
(* dict operations used by the codec *)

\* value in dictionary.values()
HasValue(dictionary, value) ==
  \E k \in DOMAIN dictionary : dictionary[k][2] = value

\* key in dictionary
HasKey(dictionary, key) ==
  \E k \in DOMAIN dictionary : dictionary[k][1] = key

\* dictionary[key], for a key the dictionary has
Item(dictionary, key) ==
  dictionary[CHOOSE k \in DOMAIN dictionary : dictionary[k][1] = key][2]

\* lines 66-69: the scan of kfind from item k on
RECURSIVE kscan(_, _, _)
kscan(dictionary, value, k) ==
  IF k > Len(dictionary) THEN <<>>
  ELSE IF dictionary[k][2] = value THEN dictionary[k][1]
  ELSE kscan(dictionary, value, k + 1)

\* kfind: the first key of a value in a dictionary, "" when there is none
kfind(dictionary, value) == kscan(dictionary, value, 1)

----------------------------------------------------------------------------
(* str.upper() *)

LowerCase ==
  <<"a","b","c","d","e","f","g","h","i","j","k","l","m",
    "n","o","p","q","r","s","t","u","v","w","x","y","z">>

UpperCase ==
  <<"A","B","C","D","E","F","G","H","I","J","K","L","M",
    "N","O","P","Q","R","S","T","U","V","W","X","Y","Z">>

\* upper() of one character: a string, since the sharp s becomes "SS"
UpperChar(c) ==
  IF c = "ss" THEN <<"S", "S">>
  ELSE IF \E k \in DOMAIN LowerCase : LowerCase[k] = c
       THEN <<UpperCase[CHOOSE k \in DOMAIN LowerCase : LowerCase[k] = c]>>
       ELSE <<c>>

RECURSIVE Upper(_)
Upper(s) == IF s = <<>> THEN <<>> ELSE UpperChar(Head(s)) \o Upper(Tail(s))

----------------------------------------------------------------------------
(* ita2_encode, ita2.py lines 57-91 *)

\* lines 71-74 with the priming code always the letters shift
EncStart_always_letters(message, codepage, letters_mode) ==
  [message      |-> Upper(message),
   i            |-> 0,
   letters_mode |-> letters_mode,
   result       |-> <<kfind(CODEPAGES[codepage].letters, "l")>>]

\* lines 71-74: the message is uppercased and result starts with the shift
\* code of the caller's mode
EncStart(message, codepage, letters_mode) ==
  [message      |-> Upper(message),
   i            |-> 0,
   letters_mode |-> letters_mode,
   result       |-> <<kfind(CODEPAGES[codepage].letters,
                            IF letters_mode THEN "l" ELSE "f")>>]

\* the loop body testing membership in the table of the other mode
EncBody_wrong_table(letters_mode, result, character, codepage) ==
  LET letters == CODEPAGES[codepage].letters
      figures == CODEPAGES[codepage].figures
  IN  IF letters_mode
      THEN IF HasValue(figures, character)
           THEN [letters_mode |-> TRUE,
                 result |-> Append(result, kfind(letters, character))]
           ELSE [letters_mode |-> FALSE,
                 result |-> result \o <<kfind(figures, "f"),
                                        kfind(figures, character)>>]
      ELSE IF HasValue(letters, character)
           THEN [letters_mode |-> FALSE,
                 result |-> Append(result, kfind(figures, character))]
           ELSE [letters_mode |-> TRUE,
                 result |-> result \o <<kfind(letters, "l"),
                                        kfind(letters, character)>>]

\* the loop body leaving the shift code out when it changes mode
EncBody_no_shift(letters_mode, result, character, codepage) ==
  LET letters == CODEPAGES[codepage].letters
      figures == CODEPAGES[codepage].figures
  IN  IF letters_mode
      THEN IF HasValue(letters, character)
           THEN [letters_mode |-> TRUE,
                 result |-> Append(result, kfind(letters, character))]
           ELSE [letters_mode |-> FALSE,
                 result |-> Append(result, kfind(figures, character))]
      ELSE IF HasValue(figures, character)
           THEN [letters_mode |-> FALSE,
                 result |-> Append(result, kfind(figures, character))]
           ELSE [letters_mode |-> TRUE,
                 result |-> Append(result, kfind(letters, character))]

\* the loop body emitting the shift code of both modes when it changes mode
EncBody_double_shift(letters_mode, result, character, codepage) ==
  LET letters == CODEPAGES[codepage].letters
      figures == CODEPAGES[codepage].figures
  IN  IF letters_mode
      THEN IF HasValue(letters, character)
           THEN [letters_mode |-> TRUE,
                 result |-> Append(result, kfind(letters, character))]
           ELSE [letters_mode |-> FALSE,
                 result |-> result \o <<kfind(letters, "l"),
                                        kfind(figures, "f"),
                                        kfind(figures, character)>>]
      ELSE IF HasValue(figures, character)
           THEN [letters_mode |-> FALSE,
                 result |-> Append(result, kfind(figures, character))]
           ELSE [letters_mode |-> TRUE,
                 result |-> result \o <<kfind(figures, "f"),
                                        kfind(letters, "l"),
                                        kfind(letters, character)>>]

\* lines 77-90: one iteration of the loop over the message
EncBody(letters_mode, result, character, codepage) ==
  LET letters == CODEPAGES[codepage].letters
      figures == CODEPAGES[codepage].figures
  IN  IF letters_mode
      THEN IF HasValue(letters, character)
           THEN [letters_mode |-> TRUE,
                 result |-> Append(result, kfind(letters, character))]
           ELSE [letters_mode |-> FALSE,
                 result |-> result \o <<kfind(figures, "f"),
                                        kfind(figures, character)>>]
      ELSE IF HasValue(figures, character)
           THEN [letters_mode |-> FALSE,
                 result |-> Append(result, kfind(figures, character))]
           ELSE [letters_mode |-> TRUE,
                 result |-> result \o <<kfind(letters, "l"),
                                        kfind(letters, character)>>]

\* lines 76-91: the loop from character i + 1 on, and the value returned
RECURSIVE EncLoop(_, _)
EncLoop(e, codepage) ==
  IF e.i = Len(e.message) THEN e.result
  ELSE LET b == EncBody(e.letters_mode, e.result, e.message[e.i + 1], codepage)
       IN  EncLoop([e EXCEPT !.i = e.i + 1,
                             !.letters_mode = b.letters_mode,
                             !.result = b.result], codepage)

ita2_encode(message, codepage, letters_mode) ==
  EncLoop(EncStart(message, codepage, letters_mode), codepage)

----------------------------------------------------------------------------
(* ita2_decode, ita2.py lines 93-109 *)

\* lines 99-101
DecStart(message, codepage, letters_mode) ==
  [message      |-> message,
   codepage     |-> codepage,
   arg_mode     |-> letters_mode,
   i            |-> 0,
   letters_mode |-> letters_mode,
   result       |-> <<>>]

\* the loop body skipping a code the tables do not have
DecBody_skip_unknown(letters_mode, result, code, codepage) ==
  LET letters == CODEPAGES[codepage].letters
      figures == CODEPAGES[codepage].figures
      ok(m, r) == [letters_mode |-> m, result |-> r, error |-> "none"]
  IN  IF ~HasKey(letters, code) THEN ok(letters_mode, result)
      ELSE IF Item(letters, code) = "l" THEN ok(TRUE, result)
      ELSE IF Item(figures, code) = "f" THEN ok(FALSE, result)
      ELSE ok(letters_mode,
              Append(result, IF letters_mode THEN Item(letters, code)
                                             ELSE Item(figures, code)))

\* the loop body taking the letters shift for an ordinary code of the mode
DecBody_no_letters_shift(letters_mode, result, code, codepage) ==
  LET letters == CODEPAGES[codepage].letters
      figures == CODEPAGES[codepage].figures
      ok(m, r) == [letters_mode |-> m, result |-> r, error |-> "none"]
  IN  IF ~HasKey(letters, code)
      THEN [letters_mode |-> letters_mode, result |-> result,
            error |-> "KeyError"]
      ELSE IF Item(figures, code) = "f" THEN ok(FALSE, result)
      ELSE ok(letters_mode,
              Append(result, IF letters_mode THEN Item(letters, code)
                                             ELSE Item(figures, code)))

\* the loop body always reading the letters table
DecBody_letters_only(letters_mode, result, code, codepage) ==
  LET letters == CODEPAGES[codepage].letters
      figures == CODEPAGES[codepage].figures
      ok(m, r) == [letters_mode |-> m, result |-> r, error |-> "none"]
  IN  IF ~HasKey(letters, code)
      THEN [letters_mode |-> letters_mode, result |-> result,
            error |-> "KeyError"]
      ELSE IF Item(letters, code) = "l" THEN ok(TRUE, result)
      ELSE IF Item(figures, code) = "f" THEN ok(FALSE, result)
      ELSE ok(letters_mode, Append(result, Item(letters, code)))

\* lines 103-108: one iteration of the loop over the codes; letters[code]
\* and figures[code] raise KeyError for a code that is no key of the table
DecBody(letters_mode, result, code, codepage) ==
  LET letters == CODEPAGES[codepage].letters
      figures == CODEPAGES[codepage].figures
      ok(m, r) == [letters_mode |-> m, result |-> r, error |-> "none"]
      raise    == [letters_mode |-> letters_mode, result |-> result,
                   error |-> "KeyError"]
  IN  IF ~HasKey(letters, code) THEN raise
      ELSE IF Item(letters, code) = "l" THEN ok(TRUE, result)
      ELSE IF ~HasKey(figures, code) THEN raise
      ELSE IF Item(figures, code) = "f" THEN ok(FALSE, result)
      ELSE ok(letters_mode,
              Append(result, IF letters_mode THEN Item(letters, code)
                                             ELSE Item(figures, code)))

\* lines 102-109: the loop from code i + 1 on; the string returned, or the
\* exception that ends the call
RECURSIVE DecLoop(_)
DecLoop(d) ==
  IF d.i = Len(d.message) THEN [value |-> d.result, error |-> "none"]
  ELSE LET b == DecBody(d.letters_mode, d.result, d.message[d.i + 1],
                        d.codepage)
       IN  IF b.error # "none" THEN [value |-> <<>>, error |-> b.error]
           ELSE DecLoop([d EXCEPT !.i = d.i + 1,
                                  !.letters_mode = b.letters_mode,
                                  !.result = b.result])

ita2_decode(message, codepage, letters_mode) ==
  DecLoop(DecStart(message, codepage, letters_mode))

----------------------------------------------------------------------------
(* ita2_draw, ita2.py lines 111-129.  The glyphs printed are written "HBAR" *)
(* (the border), "HOLE" (a punched bit), "FEED" (the feed hole) and " ".    *)

\* lines 116 and 129: the border line
Border(code) == [k \in 1 .. (Len(code) * 2 + 2) |-> "HBAR"]

\* lines 122-127: what is printed for one character of a code
Cell(c) ==
  IF c = "1" THEN <<"HOLE", " ">>
  ELSE IF c = "0" THEN <<" ", " ">>
  ELSE IF c = "x" THEN <<"FEED", " ">>
  ELSE <<>>

\* lines 121-127: the inner loop of row i over the codes
RECURSIVE Cells(_, _)
Cells(code, i) ==
  IF code = <<>> THEN <<>>
  ELSE Cell(Head(code)[(5 - i) + 1]) \o Cells(Tail(code), i)

\* lines 116-129 with the outer loop over range(rows): the lines printed.
\* code[j][5 - i] raises IndexError in the first row, at the first code
\* shorter than six characters, after the border and the cells before it.
DrawRows(code, rows) ==
  LET short == {j \in DOMAIN code : Len(code[j]) < 6}
  IN  IF short = {}
      THEN [code  |-> code,
            lines |-> <<Border(code)>>
                      \o [r \in 1 .. rows |->
                            <<" ">> \o Cells(code, r - 1) \o <<" ">>]
                      \o <<Border(code)>>,
            error |-> "none"]
      ELSE LET j == CHOOSE k \in short : \A h \in short : k <= h
           IN  [code  |-> code,
                lines |-> <<Border(code),
                            <<" ">> \o Cells(SubSeq(code, 1, j - 1), 0)>>,
                error |-> "IndexError"]

\* ita2_draw with the outer loop over range(5)
ita2_draw_five_rows(code) == DrawRows(code, 5)

\* line 117: the outer loop is over range(6)
ita2_draw(code) == DrawRows(code, 6)

----------------------------------------------------------------------------
(* leftpad, leftpad.py lines 11-22 *)

Digits == <<"0","1","2","3","4","5","6","7","8","9">>

\* str() of a natural number
RECURSIVE NatToStr(_)
NatToStr(n) ==
  IF n < 10 THEN <<Digits[n + 1]>>
  ELSE Append(NatToStr(n \div 10), Digits[(n % 10) + 1])

\* str() of an integer
IntToStr(n) == IF n < 0 THEN <<"-">> \o NatToStr(-n) ELSE NatToStr(n)

\* c * n for a one-character string c: the empty string when n <= 0
Repeat(c, n) == [k \in 1 .. n |-> c]

\* leftpad padding to length characters in front of the string
leftpad_pad_full_length(string, length, fill) ==
  LET old_length == Len(string)
      new_length == IF length <= old_length THEN old_length ELSE length
      pad_length == new_length
  IN  IF fill.type = "str"
      THEN IF fill.str = <<>>
           THEN [value |-> <<>>, error |-> "IndexError"]
           ELSE [value |-> Repeat(fill.str[1], pad_length) \o string,
                 error |-> "none"]
      ELSE IF fill.type = "int"
      THEN [value |-> Repeat(IntToStr(fill.int)[1], pad_length) \o string,
            error |-> "none"]
      ELSE [value |-> <<>>, error |-> "TypeError"]

\* lines 12-22; fill[0] raises IndexError for the empty string
leftpad(string, length, fill) ==
  LET old_length == Len(string)
      new_length == IF length <= old_length THEN old_length ELSE length
      pad_length == new_length - old_length
  IN  IF fill.type = "str"
      THEN IF fill.str = <<>>
           THEN [value |-> <<>>, error |-> "IndexError"]
           ELSE [value |-> Repeat(fill.str[1], pad_length) \o string,
                 error |-> "none"]
      ELSE IF fill.type = "int"
      THEN [value |-> Repeat(IntToStr(fill.int)[1], pad_length) \o string,
            error |-> "none"]
      ELSE [value |-> <<>>, error |-> "TypeError"]

----------------------------------------------------------------------------
(* Inputs *)

SeqsUpTo(S, n) == UNION {[1 .. k -> S] : k \in 0 .. n}

\* characters of each kind: letters, a figure, a character of both tables,
\* a lower-case one, one that upper() lengthens, one of neither table
CoreAlphabet == {"A", "B", "1", " ", "e", "ss", "@"}

\* dictionary.values()
Values(dictionary) == {dictionary[k][2] : k \in DOMAIN dictionary}

FullAlphabet ==
  CoreAlphabet
    \cup UNION {Values(CODEPAGES[cp].letters) \cup Values(CODEPAGES[cp].figures)
                  : cp \in CodepageNames}

\* the texts over CoreAlphabet, and every character of the tables by itself
Texts == SeqsUpTo(CoreAlphabet, MaxLen) \cup {<<c>> : c \in FullAlphabet}

\* codes handed to ita2_decode by a caller: the two shift codes, two other
\* keys, and entries that are no key: "", one character too many, one too few
RawCodes ==
  {<<"1","1","1","x","1","1">>, <<"1","1","0","x","1","1">>,
   <<"0","0","0","x","1","1">>, <<"1","0","1","x","1","1">>,
   <<>>, <<"0","0","0","x","0","1","1">>, <<"0","0","x","0","1">>}

PadStrings == SeqsUpTo({"f", "o"}, MaxPadStr)

PadLengths == (0 - 2) .. MaxPadLen

\* a fill argument: a str, an int, or a value of another type
StrFill(s) == [type |-> "str", str |-> s, int |-> 0]

IntFill(n) == [type |-> "int", str |-> <<>>, int |-> n]

OtherFill == [type |-> "other", str |-> <<>>, int |-> 0]

PadFills ==
  {StrFill(<<" ">>), StrFill(<<"_">>), StrFill(<<"a", "b", "c">>),
   StrFill(<<>>), IntFill(12), IntFill(0 - 12), IntFill(0), IntFill(7),
   OtherFill}

----------------------------------------------------------------------------
(* The calls *)

NoEnc == [message |-> <<>>, i |-> 0, letters_mode |-> TRUE, result |-> <<>>]

NoDec == DecStart(<<>>, "ita2std", TRUE)

NoTape == [code |-> <<>>, lines |-> <<>>, error |-> "none"]

NoPad == [value |-> <<>>, error |-> "none"]

Init ==
  /\ pc = "start"
  /\ enc = NoEnc
  /\ dec = NoDec
  /\ tape = NoTape
  /\ pad = NoPad
  /\ \/ /\ op = "codec"
        /\ args \in [message : Texts, codepage : CodepageNames,
                     letters_mode : BOOLEAN]
     \/ /\ op = "rawdecode"
        /\ args \in [message : SeqsUpTo(RawCodes, MaxCodes),
                     codepage : CodepageNames, letters_mode : BOOLEAN]
     \/ /\ op = "leftpad"
        /\ args \in [string : PadStrings, length : PadLengths,
                     fill : PadFills]

\* ita2_encode is called: lines 71-74
EncodeCall ==
  /\ op = "codec" /\ pc = "start"
  /\ enc' = EncStart(args.message, args.codepage, args.letters_mode)
  /\ pc' = "encoding"
  /\ UNCHANGED <<op, args, dec, tape, pad>>

\* one iteration of the loop of lines 76-90
EncodeStep ==
  /\ pc = "encoding" /\ enc.i < Len(enc.message)
  /\ LET b == EncBody(enc.letters_mode, enc.result, enc.message[enc.i + 1],
                      args.codepage)
     IN  enc' = [enc EXCEPT !.i = enc.i + 1,
                            !.letters_mode = b.letters_mode,
                            !.result = b.result]
  /\ UNCHANGED <<op, pc, args, dec, tape, pad>>

\* line 91
EncodeReturn ==
  /\ pc = "encoding" /\ enc.i = Len(enc.message)
  /\ pc' = "encoded"
  /\ UNCHANGED <<op, args, enc, dec, tape, pad>>

\* ita2_draw is called on the encoded message, whole or without its priming
\* code as ita2_test does (lines 143, 152)
Draw ==
  /\ pc = "encoded"
  /\ \E code \in {enc.result, Tail(enc.result)} : tape' = ita2_draw(code)
  /\ pc' = IF tape'.error = "none" THEN "drawn" ELSE "raised"
  /\ UNCHANGED <<op, args, enc, dec, pad>>

\* ita2_decode is called on the encoded message (lines 144, 153), with
\* either initial mode
DecodeEncoded ==
  /\ pc = "encoded"
  /\ \E m \in BOOLEAN : dec' = DecStart(enc.result, args.codepage, m)
  /\ pc' = "decoding"
  /\ UNCHANGED <<op, args, enc, tape, pad>>

\* ita2_decode is called on a code sequence of the caller's
DecodeRaw ==
  /\ op = "rawdecode" /\ pc = "start"
  /\ dec' = DecStart(args.message, args.codepage, args.letters_mode)
  /\ pc' = "decoding"
  /\ UNCHANGED <<op, args, enc, tape, pad>>

\* one iteration of the loop of lines 102-108
DecodeStep ==
  /\ pc = "decoding" /\ dec.i < Len(dec.message)
  /\ LET b == DecBody(dec.letters_mode, dec.result, dec.message[dec.i + 1],
                      dec.codepage)
     IN  IF b.error # "none"
         THEN /\ pc' = "raised"
              /\ dec' = dec
         ELSE /\ pc' = pc
              /\ dec' = [dec EXCEPT !.i = dec.i + 1,
                                    !.letters_mode = b.letters_mode,
                                    !.result = b.result]
  /\ UNCHANGED <<op, args, enc, tape, pad>>

\* line 109
DecodeReturn ==
  /\ pc = "decoding" /\ dec.i = Len(dec.message)
  /\ pc' = "decoded"
  /\ UNCHANGED <<op, args, enc, dec, tape, pad>>

\* leftpad is called
Leftpad ==
  /\ op = "leftpad" /\ pc = "start"
  /\ pad' = leftpad(args.string, args.length, args.fill)
  /\ pc' = IF pad'.error = "none" THEN "padded" ELSE "raised"
  /\ UNCHANGED <<op, args, enc, dec, tape>>

Next ==
  \/ EncodeCall
  \/ EncodeStep
  \/ EncodeReturn
  \/ Draw
  \/ DecodeEncoded
  \/ DecodeRaw
  \/ DecodeStep
  \/ DecodeReturn
  \/ Leftpad

Spec == Init /\ [][Next]_vars

----------------------------------------------------------------------------
(* Vocabulary of the properties *)

letters == CODEPAGES[args.codepage].letters

figures == CODEPAGES[args.codepage].figures

TableOf(letters_mode) == IF letters_mode THEN letters ELSE figures

Sentinel(letters_mode) == IF letters_mode THEN "l" ELSE "f"

\* code is the shift code of the mode: its entry is the mode's sentinel
IsShift(code, letters_mode) ==
  /\ HasKey(letters, code) /\ Item(letters, code) = Sentinel(letters_mode)
  /\ HasKey(figures, code) /\ Item(figures, code) = Sentinel(letters_mode)

\* code is the code of the character in the table
IsCodeOf(code, table, character) ==
  HasKey(table, code) /\ Item(table, code) = character

InTables(character) ==
  HasValue(letters, character) \/ HasValue(figures, character)

\* every character of the uppercased text is in a table of the codepage
Representable(text) ==
  LET upper == Upper(text)
  IN  \A k \in DOMAIN upper : InTables(upper[k])

Encoded == op = "codec" /\ pc \in {"encoded", "drawn", "decoding", "decoded", "raised"}

Max(a, b) == IF a >= b THEN a ELSE b

----------------------------------------------------------------------------
(* C1: a text whose uppercased characters are all in the codepage's tables, *)
(* encoded and then decoded with the same codepage and initial mode, comes  *)
(* back as the uppercased text, and neither call raises.                    *)
RoundTrip ==
  (op = "codec" /\ Representable(args.message))
    => /\ pc # "raised"
       /\ (pc = "decoded" /\ dec.arg_mode = args.letters_mode)
            => dec.result = Upper(args.message)

RoundTrip_witness ==
  /\ op = "codec" /\ pc = "decoded"
  /\ args.message = <<"e", "1", "ss">>
  /\ dec.arg_mode = args.letters_mode
  /\ dec.result = <<"E", "1", "S", "S">>

(* C2: the first element of the encoder's result is the shift code of the   *)
(* caller's initial mode, for every text, the empty one included.           *)
PrimingInvariant ==
  (op = "codec" /\ pc # "start")
    => /\ Len(enc.result) >= 1
       /\ IsShift(enc.result[1], args.letters_mode)

PrimingInvariant_witness ==
  /\ op = "codec" /\ pc = "encoded"
  /\ args.message = <<>> /\ ~args.letters_mode
  /\ enc.result = <<<<"1","1","0","x","1","1">>>>

(* C3: each iteration of the encoder's loop either appends the character's  *)
(* code from the active table and keeps the mode, or, when the active table *)
(* lacks the character, flips the mode and appends the new mode's shift     *)
(* code and then the character's code from the new mode's table; "A1B" from *)
(* LETTERS gives letters-shift, A, figures-shift, 1, letters-shift, B.      *)
ShiftInsertionStep ==
  (pc = "encoding" /\ enc'.i = enc.i + 1)
    => LET character == enc.message[enc.i + 1]
           n         == Len(enc.result)
           active    == TableOf(enc.letters_mode)
           other     == TableOf(~enc.letters_mode)
       IN  IF HasValue(active, character)
           THEN /\ enc'.letters_mode = enc.letters_mode
                /\ Len(enc'.result) = n + 1
                /\ SubSeq(enc'.result, 1, n) = enc.result
                /\ IsCodeOf(enc'.result[n + 1], active, character)
           ELSE /\ enc'.letters_mode = ~enc.letters_mode
                /\ Len(enc'.result) = n + 2
                /\ SubSeq(enc'.result, 1, n) = enc.result
                /\ IsShift(enc'.result[n + 1], ~enc.letters_mode)
                /\ HasValue(other, character)
                     => IsCodeOf(enc'.result[n + 2], other, character)

ShiftInsertionA1B ==
  (op = "codec" /\ pc = "encoded" /\ args.message = <<"A", "1", "B">>
     /\ args.letters_mode)
    => enc.result = << <<"1","1","1","x","1","1">>, <<"0","0","0","x","1","1">>,
                       <<"1","1","0","x","1","1">>, <<"1","0","1","x","1","1">>,
                       <<"1","1","1","x","1","1">>, <<"1","1","0","x","0","1">> >>

SilentDrop ==
  (op = "codec" /\ pc = "encoded")
    => LET kept(c) == \A k \in DOMAIN UpperChar(c) : InTables(UpperChar(c)[k])
       IN  enc.result = ita2_encode(SelectSeq(args.message, kept),
                                    args.codepage, args.letters_mode)

(* C5 as claimed: a text whose characters all belong to one mode's table    *)
(* encodes to exactly len(s) + 1 codes, whatever the initial mode.          *)
ShiftEconomyAnyMode ==
  (op = "codec" /\ pc = "encoded"
     /\ \E m \in BOOLEAN :
          \A k \in DOMAIN args.message : HasValue(TableOf(m), args.message[k]))
    => Len(enc.result) = Len(args.message) + 1

(* C5 as amended: a text whose uppercased characters all belong to the      *)
(* table of the initial mode encodes to the priming shift code followed by  *)
(* one code per character of the uppercased text, with no further shift.    *)
ShiftEconomy ==
  LET text  == Upper(args.message)
      table == TableOf(args.letters_mode)
  IN  (op = "codec" /\ pc = "encoded"
         /\ \A k \in DOMAIN text : HasValue(table, text[k]))
        => /\ Len(enc.result) = Len(text) + 1
           /\ IsShift(enc.result[1], args.letters_mode)
           /\ \A k \in DOMAIN text : IsCodeOf(enc.result[k + 1], table, text[k])

ShiftEconomy_witness ==
  /\ op = "codec" /\ pc = "encoded"
  /\ args.message = <<"e", "ss", " ">> /\ args.letters_mode
  /\ Len(enc.result) = 5

(* C6: ita2_decode on a sequence holding an element that is no key of the   *)
(* codepage's tables never returns: it stops with an error at the first     *)
(* such element.                                                            *)
MalformedDecode ==
  LET bad == {k \in DOMAIN dec.message :
                ~HasKey(CODEPAGES[dec.codepage].letters, dec.message[k])
                \/ ~HasKey(CODEPAGES[dec.codepage].figures, dec.message[k])}
  IN  bad # {}
        => /\ pc # "decoded"
           /\ pc = "decoding" => \A k \in bad : dec.i < k
           /\ pc = "raised" => /\ dec.i + 1 \in bad
                               /\ \A k \in bad : dec.i + 1 <= k

MalformedDecode_witness ==
  /\ op = "rawdecode" /\ pc = "raised"
  /\ dec.message = << <<"1","1","1","x","1","1">>, <<"0","0","0","x","1","1">>,
                      <<"0","0","0","x","0","1","1">> >>
  /\ dec.i = 2 /\ dec.result = <<"A">>

(* C7: the encoder's result has at least 1 and at most 2 * len(text.upper()) *)
(* + 1 elements, and exactly 1 for the empty text.                           *)
LengthBounds ==
  (op = "codec" /\ pc # "start")
    => /\ Len(enc.result) >= 1
       /\ Len(enc.result) <= 2 * enc.i + 1
       /\ Encoded => /\ Len(enc.result) <= 2 * Len(Upper(args.message)) + 1
                     /\ args.message = <<>> => Len(enc.result) = 1

LengthBounds_witness ==
  /\ op = "codec" /\ pc = "encoded"
  /\ args.message = <<"1", "A", "1">> /\ args.letters_mode
  /\ Len(enc.result) = 2 * Len(Upper(args.message)) + 1

(* C8 as claimed: for well-formed codes ita2_draw prints a border, five     *)
(* rows and a border.                                                       *)
WellFormed(code) ==
  \A j \in DOMAIN code : HasKey(letters, code[j]) \/ HasKey(figures, code[j])

TapeFiveRows ==
  (op = "codec" /\ tape.lines # <<>> /\ WellFormed(tape.code))
    => /\ tape.error = "none"
       /\ Len(tape.lines) = 5 + 2
       /\ tape.lines[1] = [k \in 1 .. 2 * Len(tape.code) + 2 |-> "HBAR"]
       /\ tape.lines[5 + 2] = [k \in 1 .. 2 * Len(tape.code) + 2 |-> "HBAR"]

(* C8 as amended: for well-formed codes ita2_draw prints a border of        *)
(* 2 * len(codes) + 2 glyphs, six rows and the same border: one row for     *)
(* each of the six characters of a code, last character first, which is one *)
(* row per bit and, third, the row of the "x" between the bits; each row    *)
(* holds one mark per code, in sequence order.                              *)
TapeLayout ==
  (op = "codec" /\ tape.lines # <<>> /\ WellFormed(tape.code))
    => LET n == Len(tape.code)
           mark(c) == IF c = "1" THEN "HOLE" ELSE IF c = "0" THEN " " ELSE "FEED"
       IN  /\ tape.error = "none"
           /\ Len(tape.lines) = 6 + 2
           /\ tape.lines[1] = [k \in 1 .. 2 * n + 2 |-> "HBAR"]
           /\ tape.lines[6 + 2] = tape.lines[1]
           /\ \A r \in 1 .. 6 :
                LET row == tape.lines[r + 1]
                IN  /\ Len(row) = 2 * n + 2
                    /\ row[1] = " " /\ row[2 * n + 2] = " "
                    /\ \A j \in 1 .. n :
                         /\ row[2 * j] = mark(tape.code[j][7 - r])
                         /\ row[2 * j + 1] = " "
                         /\ r = 3 <=> tape.code[j][7 - r] = "x"

TapeLayout_witness ==
  /\ op = "codec" /\ pc = "drawn"
  /\ tape.code = << <<"1","1","1","x","1","1">>, <<"0","0","0","x","1","1">> >>
  /\ tape.lines[2] = <<" ", "HOLE", " ", "HOLE", " ", " ">>
  /\ tape.lines[4] = <<" ", "FEED", " ", "FEED", " ", " ">>
  /\ tape.lines[7] = <<" ", "HOLE", " ", " ", " ", " ">>

(* C9: for a fill that is a non-empty string or an integer, leftpad returns *)
(* the first character of the fill (of its decimal form for an integer)     *)
(* max(0, length - len(string)) times, followed by the string.              *)
LeftpadResult ==
  (op = "leftpad" /\ pc # "start"
     /\ (args.fill.type = "int" \/ (args.fill.type = "str" /\ args.fill.str # <<>>)))
    => LET n     == Len(args.string)
           p     == Max(0, args.length - n)
           first == IF args.fill.type = "str" THEN args.fill.str[1]
                    ELSE IF args.fill.int < 0 THEN "-"
                    ELSE IF args.fill.int = 12 THEN "1"
                    ELSE IntToStr(args.fill.int)[1]
       IN  /\ pc = "padded"
           /\ Len(pad.value) = p + n
           /\ \A k \in 1 .. p : pad.value[k] = first
           /\ \A k \in 1 .. n : pad.value[p + k] = args.string[k]
           /\ args.length <= n => pad.value = args.string
           /\ args.length > n => Len(pad.value) = args.length

LeftpadResult_witness ==
  /\ op = "leftpad" /\ pc = "padded"
  /\ args.string = <<"f", "o", "o">> /\ args.length = 4
  /\ args.fill = IntFill(0 - 12)
  /\ pad.value = <<"-", "f", "o", "o">>

(* C10: on the encoder's output the decoder's result does not depend on the *)
(* decoder's initial mode: the priming code is decoded first, sets the mode *)
(* to the encoder's initial mode and adds no character.                     *)
DecoderModeIndependence ==
  (op = "codec" /\ Representable(args.message))
    => /\ (pc = "decoding" /\ dec.i = 1)
            => dec.letters_mode = args.letters_mode /\ dec.result = <<>>
       /\ pc = "decoded"
            => LET same == ita2_decode(enc.result, args.codepage,
                                       args.letters_mode)
               IN  same.error = "none" /\ dec.result = same.value

DecoderModeIndependence_witness ==
  /\ op = "codec" /\ pc = "decoded"
  /\ args.message = <<"A", "1", "B">>
  /\ ~args.letters_mode /\ dec.arg_mode
  /\ dec.result = <<"A", "1", "B">>

====
